---- MODULE Spec2Model ----
(***************************************************************************)
(* Model of the statistics engine of src/src/waka.py (WakaTimeClient):     *)
(*   - get_coding_durations: heartbeats merged into sessions,              *)
(*   - save_daily_stats: upsert of one Daily Record per date,              *)
(*   - get_productivity_analysis: the analysis report.                     *)
(* Times are whole seconds; hours are whole hundredths of an hour.         *)
(***************************************************************************)
EXTENDS Integers, Sequences, FiniteSets, TLC

(* get_coding_durations *)
VARIABLES heartbeats, merge_threshold, data, pc, i, current_session, durations,
          exception

(* The persisted store, the clock, and the last call of save_daily_stats or *)
(* get_productivity_analysis: what it fetched and what it produced.         *)
VARIABLES stats_file, now, today_status, week_stats, week_summaries, report

sessionVars == <<heartbeats, merge_threshold, data, pc, i, current_session, durations,
                 exception>>

statsVars == <<stats_file, now, today_status, week_stats, week_summaries, report>>

vars == <<sessionVars, statsVars>>

----------------------------------------------------------------------------
(* Bounds of the explored inputs. *)
MaxEvents == 3
MaxTime == 2
MaxThreshold == 1
(* The days of the calendar among which the clock of SpecStore moves. *)
MaxDates == 3

(* merge_threshold's default value. *)
DefaultThreshold == 300

----------------------------------------------------------------------------
(* JSON scalars: a number, null, a string that float() parses (v is its   *)
(* value, hours in hundredths), a string that float() does not parse.    *)
JNum(n) == [t |-> "num", v |-> n]
JNull == [t |-> "null"]
JStr(n) == [t |-> "str", v |-> n]
JBad == [t |-> "bad"]

(* Python truthiness: a non-empty string, or a number other than 0. *)
Truthy(x) == x.t \in {"str", "bad"} \/ (x.t = "num" /\ x.v # 0)

(* A path is its sequence of tokens, "/" being the separator token. *)
PathAX == <<"/", "a", "/", "b", "/", "x.py">>
PathCX == <<"/", "c", "/", "x.py">>
PathDir == <<"src", "/">>

(* The non-time fields of the heartbeats explored: a key that is not in the *)
(* record's domain is a key the heartbeat does not have.                    *)
Profiles ==
    { [entity |-> PathAX, type |-> "file", project |-> "p1", language |-> "Python",
       category |-> "coding", line_additions |-> JNum(2), line_deletions |-> JNum(1)],
      [entity |-> PathCX, project |-> "p2", language |-> "Python",
       category |-> "debugging"],
      [entity |-> PathDir, type |-> "app", category |-> "coding",
       line_additions |-> JNull, line_deletions |-> JNum(3)],
      [project |-> "p1", language |-> "Go", line_additions |-> JNum(0),
       line_deletions |-> JNull] }

Events == { p @@ [time |-> t] : p \in Profiles, t \in 0..MaxTime }

EventLists == UNION { [1..n -> Events] : n \in 0..MaxEvents }

(* The scenario of the specification: t = 0, 100, 200, 1000, entity a.py. *)
ScenarioEvent(t) == [time |-> t, entity |-> <<"a.py">>]
Scenario == <<ScenarioEvent(0), ScenarioEvent(100), ScenarioEvent(200), ScenarioEvent(1000)>>

----------------------------------------------------------------------------
(* sorted(..., key=lambda x: x["time"]): a stable sort. *)
RECURSIVE InsertByTime(_, _)
InsertByTime(s, e) ==
    IF s = << >> THEN <<e>>
    ELSE IF s[Len(s)].time <= e.time THEN Append(s, e)
    ELSE Append(InsertByTime(SubSeq(s, 1, Len(s) - 1), e), s[Len(s)])

(* The events kept in their arrival order. *)
SortByTime_unsorted(s) == s

RECURSIVE SortByTime(_)
SortByTime(s) ==
    IF s = << >> THEN << >>
    ELSE InsertByTime(SortByTime(SubSeq(s, 1, Len(s) - 1)), s[Len(s)])

(* os.path.basename: what follows the last separator. *)
RECURSIVE basename(_)
basename(p) ==
    IF p = << >> THEN << >>
    ELSE IF p[Len(p)] = "/" THEN << >>
    ELSE Append(basename(SubSeq(p, 1, Len(p) - 1)), p[Len(p)])

normalize_file_path_identity(file_path) == file_path

normalize_file_path(file_path) ==
    IF file_path = << >> THEN file_path ELSE basename(file_path)

Put(d, k, v) == [x \in DOMAIN d \cup {k} |-> IF x = k THEN v ELSE d[x]]

EmptyMap == [x \in {} |-> 0]

(* dict[key] += duration *)
AddDuration_minus(old, duration) == old - duration

AddDuration(old, duration) == old + duration

UpdateFiles(files, heartbeat, duration) ==
    IF "entity" \in DOMAIN heartbeat
    THEN LET entity == normalize_file_path(heartbeat.entity)
             old == IF entity \in DOMAIN files THEN files[entity]
                    ELSE [duration |-> 0,
                          type |-> IF "type" \in DOMAIN heartbeat
                                   THEN heartbeat.type ELSE "unknown"]
         IN Put(files, entity, [old EXCEPT !.duration = AddDuration(@, duration)])
    ELSE files

UpdateKey(m, heartbeat, key, duration) ==
    IF key \in DOMAIN heartbeat
    THEN LET k == heartbeat[key]
             old == IF k \in DOMAIN m THEN m[k] ELSE 0
         IN Put(m, k, AddDuration(old, duration))
    ELSE m

update_activity_duration(session, heartbeat, duration) ==
    [session EXCEPT !.activities =
        [files |-> UpdateFiles(@.files, heartbeat, duration),
         projects |-> UpdateKey(@.projects, heartbeat, "project", duration),
         languages |-> UpdateKey(@.languages, heartbeat, "language", duration),
         categories |-> UpdateKey(@.categories, heartbeat, "category", duration)]]

EmptyActivities ==
    [files |-> EmptyMap, projects |-> EmptyMap, languages |-> EmptyMap,
     categories |-> EmptyMap]

(* round(seconds / 60, 2), in hundredths of a minute. *)
RoundMinutes(seconds) == (10 * seconds + 3) \div 6

format_duration(session) ==
    [start_time |-> session.start_time,
     end_time |-> session.end_time,
     duration_seconds |-> session.duration,
     duration_minutes |-> RoundMinutes(session.duration),
     activities |->
        [files |-> [k \in DOMAIN session.activities.files |->
                       [duration_minutes |-> RoundMinutes(session.activities.files[k].duration),
                        type |-> session.activities.files[k].type]],
         projects |-> [k \in DOMAIN session.activities.projects |->
                          RoundMinutes(session.activities.projects[k])],
         languages |-> [k \in DOMAIN session.activities.languages |->
                           RoundMinutes(session.activities.languages[k])],
         categories |-> [k \in DOMAIN session.activities.categories |->
                            RoundMinutes(session.activities.categories[k])]],
     line_changes |-> session.line_changes]

(* heartbeat.get(key, 0) *)
GetOrZero(heartbeat, key) ==
    IF key \in DOMAIN heartbeat THEN heartbeat[key] ELSE JNum(0)

(* if current.get(key): total += current[key] *)
AddsLines(heartbeat, key) == key \in DOMAIN heartbeat /\ Truthy(heartbeat[key])

(* None += int raises TypeError. *)
AddLinesRaises(total, heartbeat, key) == AddsLines(heartbeat, key) /\ total.t = "null"

AddLines(total, heartbeat, key) ==
    IF AddsLines(heartbeat, key) THEN JNum(total.v + heartbeat[key].v) ELSE total

NewSession(heartbeat, line_changes) ==
    update_activity_duration(
        [start_time |-> heartbeat.time, end_time |-> heartbeat.time, duration |-> 0,
         activities |-> EmptyActivities, line_changes |-> line_changes],
        heartbeat, 0)

(* if duration > 0: self._update_activity_duration(session, heartbeat, duration) *)
Positive(duration) == duration > 0

AttributeIfPositive(session, heartbeat, duration) ==
    IF Positive(duration) THEN update_activity_duration(session, heartbeat, duration)
    ELSE session

(* Line 265: the gap is attributed to prev. *)
AttributedHeartbeat_current(prev, current) == current

AttributedHeartbeat(prev, current) == prev

(* time_diff <= merge_threshold *)
WithinThreshold_strict(time_diff, threshold) == time_diff < threshold

WithinThreshold(time_diff, threshold) == time_diff <= threshold

(* Line 260: the duration of the session once current is merged. *)
SessionDuration_gap(session, current) == current.time - session.end_time

SessionDuration(session, current) == current.time - session.start_time

(* Lines 267-275: the line changes of current are added, additions first; *)
(* the session is the one left behind when += raises.                     *)
FoldLineChanges(session, current) ==
    LET added == [session EXCEPT !.line_changes.additions =
                     AddLines(@, current, "line_additions")]
    IN IF AddLinesRaises(session.line_changes.additions, current, "line_additions")
       THEN [raised |-> "TypeError", session |-> session]
       ELSE IF AddLinesRaises(session.line_changes.deletions, current, "line_deletions")
       THEN [raised |-> "TypeError", session |-> added]
       ELSE [raised |-> "none",
             session |-> [added EXCEPT !.line_changes.deletions =
                             AddLines(@, current, "line_deletions")]]

(* Lines 258-275: current is merged into the session. *)
Extend(session, prev, current) ==
    LET time_diff == current.time - prev.time
        extended == [session EXCEPT !.end_time = current.time,
                                    !.duration = SessionDuration(session, current)]
    IN FoldLineChanges(AttributeIfPositive(extended, AttributedHeartbeat(prev, current),
                                           time_diff),
                       current)

(* Lines 279 and 308: what is left to attribute when a session is closed. *)
FinalDuration_whole(session, last) == session.duration

FinalDuration(session, last) == session.end_time - last.time

(* Lines 279-283 and 308-312: the session is closed on its last event. *)
CloseSession(session, last) ==
    format_duration(AttributeIfPositive(session, last, FinalDuration(session, last)))

(* Lines 235-249: the first session. *)
FirstSession(first) == NewSession(first, [additions |-> JNum(0), deletions |-> JNum(0)])

(* Lines 286-301: the session started at current. *)
NextSession(current) ==
    NewSession(current, [additions |-> GetOrZero(current, "line_additions"),
                         deletions |-> GetOrZero(current, "line_deletions")])

(* Lines 251-312: the loop from the n-th sorted event on, and what is    *)
(* returned or raised at its end.                                         *)
RECURSIVE RunLoop(_, _, _, _, _)
RunLoop(events, threshold, n, session, closed) ==
    IF n > Len(events)
    THEN [raised |-> "none",
          durations |-> Append(closed, CloseSession(session, events[Len(events)]))]
    ELSE IF WithinThreshold(events[n].time - events[n - 1].time, threshold)
    THEN LET merged == Extend(session, events[n - 1], events[n])
         IN IF merged.raised # "none"
            THEN [raised |-> merged.raised, durations |-> << >>]
            ELSE RunLoop(events, threshold, n + 1, merged.session, closed)
    ELSE RunLoop(events, threshold, n + 1, NextSession(events[n]),
                 Append(closed, CloseSession(session, events[n - 1])))

(* Lines 224-312: get_coding_durations as a function of what was fetched. *)
get_coding_durations(fetched, threshold) ==
    LET sorted == SortByTime(fetched)
    IN IF sorted = << >> THEN [raised |-> "none", durations |-> << >>]
       ELSE RunLoop(sorted, threshold, 2, FirstSession(sorted[1]), << >>)

NoSession == [start_time |-> 0, end_time |-> 0, duration |-> 0,
              activities |-> EmptyActivities,
              line_changes |-> [additions |-> JNum(0), deletions |-> JNum(0)]]

----------------------------------------------------------------------------
(* The calendar: what strftime("%Y-%m-%d"), strftime("%A"),               *)
(* isocalendar()[0] and isocalendar()[1] give on the days the clock       *)
(* visits, in chronological order.                                        *)
Calendar ==
    << [date |-> <<2024, 1, 1>>, weekday |-> "Monday", iso_year |-> 2024, week |-> 1],
       [date |-> <<2024, 1, 2>>, weekday |-> "Tuesday", iso_year |-> 2024, week |-> 1],
       [date |-> <<2024, 1, 8>>, weekday |-> "Monday", iso_year |-> 2024, week |-> 2],
       [date |-> <<2024, 12, 30>>, weekday |-> "Monday", iso_year |-> 2025, week |-> 1],
       [date |-> <<2025, 1, 6>>, weekday |-> "Monday", iso_year |-> 2025, week |-> 2] >>

(* The same facts on three later Mondays. *)
LaterWeeks ==
    << [date |-> <<2025, 1, 13>>, weekday |-> "Monday", iso_year |-> 2025, week |-> 3],
       [date |-> <<2025, 1, 20>>, weekday |-> "Monday", iso_year |-> 2025, week |-> 4],
       [date |-> <<2025, 1, 27>>, weekday |-> "Monday", iso_year |-> 2025, week |-> 5] >>

(* Every day a record or a run can be dated. *)
FullCalendar == Calendar \o LaterWeeks

Has(r, k) == k \in DOMAIN r

Ok(v) == [raised |-> "none", v |-> v]
Raise(e) == [raised |-> e]

(* float(x) *)
Float(x) ==
    CASE x.t \in {"str", "num"} -> Ok(x.v)
      [] x.t = "bad" -> Raise("ValueError")
      [] OTHER -> Raise("TypeError")

(* The "today status" aggregates explored. *)
StatusFive ==
    [data |-> [grand_total |-> [decimal |-> JStr(500)],
               categories |-> << [name |-> "Coding", decimal |-> JStr(500)] >>,
               languages |-> << [name |-> "Python", text |-> "5 hrs", percent |-> 100],
                                [name |-> "Go", text |-> "0 secs", percent |-> 0] >>]]
StatusSevenNoCategories == [data |-> [grand_total |-> [decimal |-> JStr(700)]]]
StatusZero ==
    [data |-> [grand_total |-> [decimal |-> JStr(0)],
               categories |-> << >>, languages |-> << >>]]
StatusZeroNumber ==
    [data |-> [grand_total |-> [decimal |-> JNum(0)],
               categories |-> << >>, languages |-> << >>]]
StatusNoTotal == [data |-> [categories |-> << >>, languages |-> << >>]]

WellFormedStatuses == {StatusFive, StatusSevenNoCategories, StatusZero, StatusZeroNumber}
Statuses == WellFormedStatuses \cup {StatusNoTotal}

NoInput == [none |-> TRUE]

(* today_status["data"]["grand_total"]["decimal"] *)
GrandTotalDecimal(status) ==
    IF Has(status, "data") /\ Has(status.data, "grand_total")
       /\ Has(status.data.grand_total, "decimal")
    THEN Ok(status.data.grand_total.decimal)
    ELSE Raise("KeyError")

(* today_status["data"].get(key, []) *)
DataList(status, key) == IF Has(status.data, key) THEN status.data[key] ELSE << >>

RECURSIVE CategoryMap(_)
CategoryMap(cats) ==
    IF cats = << >> THEN EmptyMap
    ELSE Put(CategoryMap(SubSeq(cats, 1, Len(cats) - 1)),
             cats[Len(cats)].name, cats[Len(cats)].decimal)

RECURSIVE LanguageMap(_)
LanguageMap(langs) ==
    IF langs = << >> THEN EmptyMap
    ELSE LET l == langs[Len(langs)]
             rest == LanguageMap(SubSeq(langs, 1, Len(langs) - 1))
         IN IF l.text # "0 secs"
            THEN Put(rest, l.name, [hours |-> l.text, percent |-> l.percent])
            ELSE rest

(* Lines 490-503: today's Daily Record, or the exception raised building it. *)
DailyStats(status, today) ==
    LET decimal == GrandTotalDecimal(status)
    IN IF decimal.raised # "none" THEN decimal
       ELSE IF Float(decimal.v).raised # "none" THEN Float(decimal.v)
       ELSE IF \E n \in 1..Len(DataList(status, "categories")) :
                  ~(Has(DataList(status, "categories")[n], "name")
                    /\ Has(DataList(status, "categories")[n], "decimal"))
            THEN Raise("KeyError")
       ELSE IF \E n \in 1..Len(DataList(status, "languages")) :
                  ~(Has(DataList(status, "languages")[n], "name")
                    /\ Has(DataList(status, "languages")[n], "text")
                    /\ Has(DataList(status, "languages")[n], "percent"))
            THEN Raise("KeyError")
       ELSE Ok([date |-> FullCalendar[today].date,
                weekday |-> FullCalendar[today].weekday,
                total_hours |-> Float(decimal.v).v,
                categories |-> CategoryMap(DataList(status, "categories")),
                languages |-> LanguageMap(DataList(status, "languages"))])

(* The store: no file, a file json.load cannot parse, or the document. *)
FileAbsent == [kind |-> "absent"]
FileCorrupt == [kind |-> "corrupt"]
FileJson(records) == [kind |-> "json", daily_records |-> records]

(* Lines 506-510: the document, or the empty one for FileNotFoundError and *)
(* JSONDecodeError.                                                        *)
LoadRecords(file) == IF file.kind = "json" THEN file.daily_records ELSE << >>

(* Lines 513-520: the first index whose date is today's, 0 for None. *)
TodayIndex_last(records, date) ==
    IF records # << >> /\ records[Len(records)].date = date THEN Len(records) ELSE 0

TodayIndex(records, date) ==
    IF \E n \in 1..Len(records) : records[n].date = date
    THEN CHOOSE n \in 1..Len(records) :
            records[n].date = date /\ \A m \in 1..(n - 1) : records[m].date # date
    ELSE 0

(* Lines 522-525 *)
Upsert_move(records, daily_stats) ==
    Append(SelectSeq(records, LAMBDA r : r.date # daily_stats.date), daily_stats)

Upsert(records, daily_stats) ==
    LET today_index == TodayIndex(records, daily_stats.date)
    IN IF today_index # 0 THEN [records EXCEPT ![today_index] = daily_stats]
       ELSE Append(records, daily_stats)

(* save_daily_stats: the exception it raises and the file it leaves. *)
save_daily_stats(status, file, today) ==
    LET daily_stats == DailyStats(status, today)
    IN IF daily_stats.raised # "none"
       THEN [raised |-> daily_stats.raised, file |-> file, today_index |-> 0]
       ELSE [raised |-> "none",
             file |-> FileJson(Upsert(LoadRecords(file), daily_stats.v)),
             today_index |-> TodayIndex(LoadRecords(file), daily_stats.v.date)]

NoReport == [op |-> "none", raised |-> "none", saved |-> FALSE]

StatsIdle ==
    /\ stats_file = FileAbsent
    /\ now = 1
    /\ today_status = NoInput
    /\ week_stats = NoInput
    /\ week_summaries = NoInput
    /\ report = NoReport

SessionsIdle ==
    /\ heartbeats = << >>
    /\ merge_threshold = DefaultThreshold
    /\ data = << >>
    /\ pc = "idle"
    /\ i = 0
    /\ current_session = NoSession
    /\ durations = << >>
    /\ exception = "none"

InitStats ==
    /\ SessionsIdle
    /\ stats_file \in {FileAbsent, FileCorrupt, FileJson(<< >>)}
    /\ now = 1
    /\ today_status = NoInput
    /\ week_stats = NoInput
    /\ week_summaries = NoInput
    /\ report = NoReport

----------------------------------------------------------------------------
(* The "range summary" aggregates explored (get_summaries). *)
Day(date, decimal) == [range |-> [date |-> date], grand_total |-> [decimal |-> decimal]]

SummariesOk == [data |-> << Day(<<2024, 1, 1>>, JStr(100)), Day(<<2024, 1, 2>>, JStr(200)) >>]
SummariesZero == [data |-> << Day(<<2024, 1, 1>>, JStr(0)), Day(<<2024, 1, 2>>, JStr(0)) >>]
SummariesUnparsable ==
    [data |-> << Day(<<2024, 1, 1>>, JStr(100)), Day(<<2024, 1, 2>>, JBad) >>]
SummariesNoTotal ==
    [data |-> << [range |-> [date |-> <<2024, 1, 1>>]], Day(<<2024, 1, 2>>, JStr(200)) >>]

WellFormedSummaries == {SummariesOk, SummariesZero}
Summaries == WellFormedSummaries \cup {SummariesUnparsable, SummariesNoTotal}

(* The "last 7 days" stats aggregates explored (get_user_stats). *)
StatsOk ==
    [data |-> [languages |-> << [name |-> "Python", text |-> "5 hrs", percent |-> 80],
                                [text |-> "1 hr"] >>,
               days |-> << [date |-> <<2024, 1, 2>>, grand_total |-> [decimal |-> JStr(200)]],
                           [date |-> <<2024, 1, 1>>] >>]]
StatsError == [error |-> "Unauthorized"]
StatsDayNoDate ==
    [data |-> [languages |-> << >>,
               days |-> << [grand_total |-> [decimal |-> JStr(200)]] >>]]

WellFormedStats == {StatsOk}
AllStats == WellFormedStats \cup {StatsError, StatsDayNoDate}

(* The live fetches of lines 535-541, in the order they are made. *)
Fetches == <<"today_status", "week_stats", "week_summaries">>

DateLess(a, b) ==
    \/ a[1] < b[1]
    \/ a[1] = b[1] /\ a[2] < b[2]
    \/ a[1] = b[1] /\ a[2] = b[2] /\ a[3] < b[3]

(* The calendar entry of a date string (strptime, fromisoformat). *)
CalendarOf(date) ==
    FullCalendar[CHOOSE n \in 1..Len(FullCalendar) : FullCalendar[n].date = date]

RECURSIVE SumHours(_)
SumHours(records) ==
    IF records = << >> THEN 0
    ELSE records[Len(records)].total_hours + SumHours(SubSeq(records, 1, Len(records) - 1))

RECURSIVE SumSeq(_)
SumSeq(q) == IF q = << >> THEN 0 ELSE q[Len(q)] + SumSeq(SubSeq(q, 1, Len(q) - 1))

(* s[:n] *)
Take(q, n) == SubSeq(q, 1, IF Len(q) < n THEN Len(q) ELSE n)

(* A mean is kept as its sum and its count. *)
Mean(sum, count) == [sum |-> sum, count |-> count]
NoMean == Mean(0, 0)

(* (float(today_total) / mean) * 100, kept as its operands. *)
Ratio(today, mean) == [shown |-> TRUE, today |-> today, mean |-> mean]
NoRatio == [shown |-> FALSE]

NotRun == [status |-> "notrun", raised |-> "none"]

(* Lines 558-571: today's summary. today_total stays unbound when the *)
(* lookup raises.                                                     *)
Unbound == [t |-> "unbound"]

(* The today section with the categories read without the "in" test of   *)
(* line 564: the KeyError ends the section at line 570.                   *)
TodaySection_unguarded(status) ==
    LET decimal == GrandTotalDecimal(status)
    IN IF decimal.raised # "none" \/ ~Has(status.data, "categories")
       THEN [status |-> "nodata", raised |-> "none",
             today_total |-> IF decimal.raised # "none" THEN Unbound ELSE decimal.v,
             has_categories |-> FALSE, categories |-> << >>]
       ELSE [status |-> "data", raised |-> "none", today_total |-> decimal.v,
             has_categories |-> TRUE,
             categories |-> DataList(status, "categories")]

TodaySection(status) ==
    LET decimal == GrandTotalDecimal(status)
    IN IF decimal.raised # "none"
       THEN [status |-> "nodata", raised |-> "none", today_total |-> Unbound,
             has_categories |-> FALSE, categories |-> << >>]
       ELSE [status |-> "data", raised |-> "none", today_total |-> decimal.v,
             has_categories |-> Has(status.data, "categories"),
             categories |-> DataList(status, "categories")]

(* float(day["grand_total"]["decimal"]) *)
DayTotal(day) ==
    IF Has(day, "grand_total") /\ Has(day.grand_total, "decimal")
    THEN Float(day.grand_total.decimal)
    ELSE Raise("KeyError")

(* Lines 580-583: the two lookups of the loop body. *)
DayLine(day) ==
    IF ~(Has(day, "range") /\ Has(day.range, "date")) THEN Raise("KeyError")
    ELSE DayTotal(day)

(* Lines 578-586: the days logged; KeyError and ValueError skip the day, *)
(* any other exception leaves the loop.                                  *)
Listed(days) == SelectSeq(days, LAMBDA day : DayLine(day).raised = "none")

LoopRaises(days) ==
    \E n \in 1..Len(days) : DayLine(days[n]).raised \notin {"none", "KeyError", "ValueError"}

(* Lines 589-592: the comprehension stops at the first day that raises. *)
RECURSIVE DailyTotals(_)
DailyTotals(days) ==
    IF days = << >> THEN Ok(<< >>)
    ELSE LET front == DailyTotals(SubSeq(days, 1, Len(days) - 1))
             last == DayTotal(days[Len(days)])
         IN IF front.raised # "none" THEN front
            ELSE IF last.raised # "none" THEN last
            ELSE Ok(Append(front.v, last.v))

(* Lines 596-600 and 614-618: if today_total: float(today_total) / mean * 100 *)
Performance(today_total, mean) ==
    IF today_total.t = "unbound" THEN Raise("UnboundLocalError")
    ELSE IF ~Truthy(today_total) THEN Ok(NoRatio)
    ELSE IF Float(today_total).raised # "none" THEN Float(today_total)
    ELSE IF mean.sum = 0 THEN Raise("ZeroDivisionError")
    ELSE Ok(Ratio(Float(today_total).v, mean))

(* except (KeyError, TypeError) *)
Caught(e) == e \in {"KeyError", "TypeError"}

(* Lines 574-603: the current-week daily breakdown. *)
WeekSection(summaries, today_total) ==
    IF ~Has(summaries, "data")
    THEN [status |-> "empty", raised |-> "none", listed |-> << >>, week_avg |-> NoMean,
          performance |-> NoRatio]
    ELSE LET days == summaries.data
             totals == DailyTotals(days)
             failed(e) == [status |-> IF Caught(e) THEN "nodata" ELSE "raised",
                           raised |-> IF Caught(e) THEN "none" ELSE e,
                           listed |-> Listed(days), week_avg |-> NoMean,
                           performance |-> NoRatio]
         IN IF LoopRaises(days) THEN failed("TypeError")
            ELSE IF totals.raised # "none" THEN failed(totals.raised)
            ELSE IF totals.v = << >>
            THEN [status |-> "data", raised |-> "none", listed |-> Listed(days),
                  week_avg |-> NoMean, performance |-> NoRatio]
            ELSE LET week_avg == Mean(SumSeq(totals.v), Len(totals.v))
                     performance == Performance(today_total, week_avg)
                 IN IF performance.raised # "none"
                    THEN [failed(performance.raised) EXCEPT !.week_avg = week_avg]
                    ELSE [status |-> "data", raised |-> "none", listed |-> Listed(days),
                          week_avg |-> week_avg, performance |-> performance.v]

(* Line 607: the records of today's weekday. *)
WeekdayRecords_all(records, today_weekday) == records

WeekdayRecords(records, today_weekday) ==
    SelectSeq(records, LAMBDA r : r.weekday = today_weekday)

(* sorted(records, key=lambda x: x["date"], reverse=True) *)
RECURSIVE InsertByDateDesc(_, _)
InsertByDateDesc(q, r) ==
    IF q = << >> THEN <<r>>
    ELSE IF ~DateLess(q[Len(q)].date, r.date) THEN Append(q, r)
    ELSE Append(InsertByDateDesc(SubSeq(q, 1, Len(q) - 1), r), q[Len(q)])

RECURSIVE SortByDateDesc(_)
SortByDateDesc(q) ==
    IF q = << >> THEN << >>
    ELSE InsertByDateDesc(SortByDateDesc(SubSeq(q, 1, Len(q) - 1)), q[Len(q)])

(* Lines 606-623: the historical same-weekday analysis. *)
WeekdaySection(records, today, today_total) ==
    LET weekday_records == WeekdayRecords(records, FullCalendar[today].weekday)
        avg_hours == Mean(SumHours(weekday_records), Len(weekday_records))
        performance == Performance(today_total, avg_hours)
    IN IF weekday_records = << >>
       THEN [status |-> "empty", raised |-> "none", avg_hours |-> NoMean,
             performance |-> NoRatio, previous |-> << >>]
       ELSE IF performance.raised # "none"
       THEN [status |-> "raised", raised |-> performance.raised, avg_hours |-> avg_hours,
             performance |-> NoRatio, previous |-> << >>]
       ELSE [status |-> "data", raised |-> "none", avg_hours |-> avg_hours,
             performance |-> performance.v,
             previous |-> Take(SortByDateDesc(weekday_records), 4)]

(* Lines 626-627: get_week_number *)
get_week_number(date_str) == CalendarOf(date_str).week

(* sorted(keys, reverse=True) *)
RECURSIVE SortedDesc(_)
SortedDesc(S) ==
    IF S = {} THEN << >>
    ELSE LET top == CHOOSE x \in S : \A y \in S : y <= x
         IN <<top>> \o SortedDesc(S \ {top})

(* Lines 630-642: the weekly trend. *)
TrendSection(records, today) ==
    LET weeks == { get_week_number(records[n].date) : n \in 1..Len(records) }
        weekly_totals(week) ==
            SelectSeq(records, LAMBDA r : get_week_number(r.date) = week)
        current_week == FullCalendar[today].week
        shown == Take(SortedDesc(weeks), 4)
    IN [status |-> "data", raised |-> "none",
        weeks |-> [n \in 1..Len(shown) |->
                     [week |-> shown[n],
                      avg |-> Mean(SumHours(weekly_totals(shown[n])),
                                   Len(weekly_totals(shown[n]))),
                      current |-> shown[n] = current_week]]]

(* lang.get(key, default) *)
GetOr(r, k, default) == IF Has(r, k) THEN r[k] ELSE default

(* Lines 645-654: the languages of the last 7 days. *)
LanguagesSection(stats) ==
    IF ~Has(stats, "data") THEN [status |-> "nodata", raised |-> "none", languages |-> << >>]
    ELSE IF ~Has(stats.data, "languages")
    THEN [status |-> "empty", raised |-> "none", languages |-> << >>]
    ELSE LET top == Take(stats.data.languages, 5)
         IN [status |-> "data", raised |-> "none",
             languages |-> [n \in 1..Len(top) |->
                              [name |-> GetOr(top[n], "name", "Unknown"),
                               text |-> GetOr(top[n], "text", "0 hrs"),
                               percent |-> GetOr(top[n], "percent", 0)]]]

(* sorted(days, key=lambda x: x["date"]) *)
RECURSIVE InsertByDate(_, _)
InsertByDate(q, d) ==
    IF q = << >> THEN <<d>>
    ELSE IF ~DateLess(d.date, q[Len(q)].date) THEN Append(q, d)
    ELSE Append(InsertByDate(SubSeq(q, 1, Len(q) - 1), d), q[Len(q)])

RECURSIVE SortByDate(_)
SortByDate(q) ==
    IF q = << >> THEN << >>
    ELSE InsertByDate(SortByDate(SubSeq(q, 1, Len(q) - 1)), q[Len(q)])

(* Lines 663-673: one day of the second breakdown; any exception is logged. *)
DayHours(day) ==
    IF Has(day, "grand_total") /\ Has(day.grand_total, "decimal")
    THEN IF Float(day.grand_total.decimal).raised = "none"
         THEN [weekday |-> CalendarOf(day.date).weekday, status |-> "hours",
               hours |-> Float(day.grand_total.decimal).v]
         ELSE [weekday |-> CalendarOf(day.date).weekday, status |-> "error", hours |-> 0]
    ELSE [weekday |-> CalendarOf(day.date).weekday, status |-> "hours", hours |-> 0]

(* Lines 657-680: the current-week breakdown of the stats aggregate. *)
DaysSection(stats) ==
    IF ~(Has(stats, "data") /\ Has(stats.data, "days"))
    THEN [status |-> "nodata", raised |-> "none", days |-> << >>]
    ELSE IF stats.data.days = << >>
    THEN [status |-> "nodata", raised |-> "none", days |-> << >>]
    ELSE IF \E n \in 1..Len(stats.data.days) : ~Has(stats.data.days[n], "date")
    THEN [status |-> "nodata", raised |-> "none", days |-> << >>]
    ELSE LET days == SortByDate(stats.data.days)
         IN [status |-> "data", raised |-> "none",
             days |-> [n \in 1..Len(days) |-> DayHours(days[n])]]

(* get_productivity_analysis: the report, the exception that ends it and *)
(* the file it leaves.                                                   *)
get_productivity_analysis(failed, status, stats, summaries, file, today) ==
    LET blank == [op |-> "get_productivity_analysis", raised |-> "none", saved |-> FALSE,
                  failed_fetch |-> failed, today_index |-> 0,
                  today |-> NotRun, week |-> NotRun, weekday |-> NotRun,
                  trend |-> NotRun, languages |-> NotRun, days |-> NotRun]
        saved == save_daily_stats(status, file, today)
        records == LoadRecords(saved.file)
        today_section == TodaySection(status)
        week == WeekSection(summaries, today_section.today_total)
        weekday == WeekdaySection(records, today, today_section.today_total)
        after_save == [blank EXCEPT !.saved = TRUE, !.today_index = saved.today_index,
                                    !.today = today_section, !.week = week]
    IN IF failed # "none"
       THEN [file |-> file, report |-> [blank EXCEPT !.raised = "RequestException"]]
       ELSE IF saved.raised # "none"
       THEN [file |-> file, report |-> [blank EXCEPT !.raised = saved.raised]]
       ELSE IF week.raised # "none"
       THEN [file |-> saved.file, report |-> [after_save EXCEPT !.raised = week.raised]]
       ELSE IF weekday.raised # "none"
       THEN [file |-> saved.file,
             report |-> [after_save EXCEPT !.weekday = weekday,
                                           !.raised = weekday.raised]]
       ELSE [file |-> saved.file,
             report |-> [after_save EXCEPT !.weekday = weekday,
                                           !.trend = TrendSection(records, today),
                                           !.languages = LanguagesSection(stats),
                                           !.days = DaysSection(stats)]]

(* No call is running: the previous one has returned. *)
Idle == report.op = "none"

(* A call of get_productivity_analysis whose three fetches succeed. *)
GetProductivityAnalysis ==
    /\ Idle
    /\ \E status \in Statuses, stats \in AllStats, summaries \in Summaries :
          LET result == get_productivity_analysis("none", status, stats, summaries,
                                                  stats_file, now)
          IN /\ today_status' = status
             /\ week_stats' = stats
             /\ week_summaries' = summaries
             /\ stats_file' = result.file
             /\ report' = result.report
    /\ UNCHANGED now
    /\ UNCHANGED sessionVars

(* A call of get_productivity_analysis in which a fetch raises (lines 535, *)
(* 536, 541): the fetches before it have returned, the later are not made. *)
GetProductivityAnalysisFetchFails ==
    /\ Idle
    /\ \E n \in 1..Len(Fetches) :
          \E status \in (IF n > 1 THEN Statuses ELSE {NoInput}),
             stats \in (IF n > 2 THEN AllStats ELSE {NoInput}) :
             LET result == get_productivity_analysis(Fetches[n], status, stats, NoInput,
                                                     stats_file, now)
             IN /\ today_status' = status
                /\ week_stats' = stats
                /\ week_summaries' = NoInput
                /\ stats_file' = result.file
                /\ report' = result.report
    /\ UNCHANGED now
    /\ UNCHANGED sessionVars

(* The call returns: its locals are gone. *)
Return ==
    /\ ~Idle
    /\ today_status' = NoInput
    /\ week_stats' = NoInput
    /\ week_summaries' = NoInput
    /\ report' = NoReport
    /\ UNCHANGED <<stats_file, now>>
    /\ UNCHANGED sessionVars

(* A call of save_daily_stats on its own. *)
SaveDailyStats ==
    /\ Idle
    /\ \E status \in Statuses :
          LET saved == save_daily_stats(status, stats_file, now)
          IN /\ today_status' = status
             /\ stats_file' = saved.file
             /\ report' = [op |-> "save_daily_stats", raised |-> saved.raised,
                           saved |-> saved.raised = "none",
                           today_index |-> saved.today_index]
    /\ week_stats' = NoInput
    /\ week_summaries' = NoInput
    /\ UNCHANGED now
    /\ UNCHANGED sessionVars

(* Time passes between two runs. *)
Tick ==
    /\ Idle
    /\ \E later \in (now + 1)..Len(Calendar) : now' = later
    /\ UNCHANGED <<stats_file, today_status, week_stats, week_summaries, report>>
    /\ UNCHANGED sessionVars

(* The clock is set to another day, earlier or later. *)
SetClock ==
    /\ Idle
    /\ \E day \in (1..MaxDates) \ {now} : now' = day
    /\ UNCHANGED <<stats_file, today_status, week_stats, week_summaries, report>>
    /\ UNCHANGED sessionVars

NextStats ==
    \/ SaveDailyStats
    \/ GetProductivityAnalysis
    \/ GetProductivityAnalysisFetchFails
    \/ Return
    \/ Tick

SpecStats == InitStats /\ [][NextStats]_vars

(* Calls of save_daily_stats alone, on any dates. *)
NextStore == SaveDailyStats \/ Return \/ SetClock

SpecStore == InitStats /\ [][NextStore]_vars

(* A store left by earlier runs of save_daily_stats: one record for each *)
(* day of a set of days, all saved from the same aggregate.              *)
RECURSIVE RecordsOn(_, _)
RecordsOn(days, status) ==
    IF days = {} THEN << >>
    ELSE LET last == CHOOSE d \in days : \A e \in days : e <= d
         IN Append(RecordsOn(days \ {last}, status), DailyStats(status, last).v)

(* The analysis starts on a day not earlier than the stored records. *)
InitTrend ==
    /\ SessionsIdle
    /\ \E days \in SUBSET (1..Len(FullCalendar)),
          status \in {StatusFive, StatusSevenNoCategories} :
          /\ stats_file = FileJson(RecordsOn(days, status))
          /\ now \in { d \in 1..Len(FullCalendar) : \A e \in days : e <= d }
    /\ today_status = NoInput
    /\ week_stats = NoInput
    /\ week_summaries = NoInput
    /\ report = NoReport

NextTrend == GetProductivityAnalysis \/ Return

SpecTrend == InitTrend /\ [][NextTrend]_vars

----------------------------------------------------------------------------
Init ==
    /\ \/ heartbeats \in EventLists /\ merge_threshold \in 0..MaxThreshold
       \/ heartbeats = Scenario /\ merge_threshold = DefaultThreshold
    /\ data = << >>
    /\ pc = "start"
    /\ i = 0
    /\ current_session = NoSession
    /\ durations = << >>
    /\ exception = "none"
    /\ StatsIdle

(* Lines 228-249: sort, the empty case, the first session. *)
Start ==
    /\ pc = "start"
    /\ data' = SortByTime(heartbeats)
    /\ IF data' = << >>
       THEN /\ pc' = "done"
            /\ UNCHANGED <<i, current_session>>
       ELSE /\ pc' = "loop"
            /\ i' = 2
            /\ current_session' = FirstSession(data'[1])
    /\ UNCHANGED <<heartbeats, merge_threshold, durations, exception>>
    /\ UNCHANGED statsVars

(* Lines 251-275: one iteration that extends the current session. *)
ExtendSession ==
    /\ pc = "loop"
    /\ i <= Len(data)
    /\ LET current == data[i]
           prev == data[i - 1]
           time_diff == current.time - prev.time
           merged == Extend(current_session, prev, current)
       IN /\ WithinThreshold(time_diff, merge_threshold)
          /\ current_session' = merged.session
          /\ IF merged.raised # "none"
             THEN /\ pc' = "raised" /\ exception' = merged.raised /\ i' = i
             ELSE /\ i' = i + 1
                  /\ UNCHANGED <<pc, exception>>
    /\ UNCHANGED <<heartbeats, merge_threshold, data, durations>>
    /\ UNCHANGED statsVars

(* Lines 277-303: one iteration that closes the session and starts the next. *)
StartNewSession ==
    /\ pc = "loop"
    /\ i <= Len(data)
    /\ LET current == data[i]
           prev == data[i - 1]
           time_diff == current.time - prev.time
       IN /\ ~WithinThreshold(time_diff, merge_threshold)
          /\ durations' = Append(durations, CloseSession(current_session, prev))
          /\ current_session' = NextSession(current)
    /\ i' = i + 1
    /\ UNCHANGED <<heartbeats, merge_threshold, data, pc, exception>>
    /\ UNCHANGED statsVars

(* Lines 305-312: the last session is closed and the list returned. *)
Finish ==
    /\ pc = "loop"
    /\ i > Len(data)
    /\ durations' = Append(durations, CloseSession(current_session, data[Len(data)]))
    /\ pc' = "done"
    /\ UNCHANGED <<heartbeats, merge_threshold, data, i, current_session, exception>>
    /\ UNCHANGED statsVars

Next == Start \/ ExtendSession \/ StartNewSession \/ Finish

Spec == Init /\ [][Next]_vars

----------------------------------------------------------------------------
(* Helpers of the properties of get_coding_durations. *)
Gap(k) == data[k].time - data[k - 1].time

(* The indices, among the first n events, at which a session starts. *)
StartSet(n) == { k \in 1..n : k = 1 \/ Gap(k) > merge_threshold }

(* The index at which the session of event n starts. *)
SessionStartIndex(n) == CHOOSE j \in StartSet(n) : \A k \in StartSet(n) : k <= j

(* The index at which the k-th session starts, and the one at which it ends. *)
StartOf(k) ==
    CHOOSE j \in StartSet(Len(data)) :
        Cardinality({ x \in StartSet(Len(data)) : x < j }) = k - 1
EndOf(k) ==
    IF k = Cardinality(StartSet(Len(data))) THEN Len(data) ELSE StartOf(k + 1) - 1

RECURSIVE SumGaps(_)
SumGaps(S) ==
    IF S = {} THEN 0
    ELSE LET k == CHOOSE x \in S : TRUE IN Gap(k) + SumGaps(S \ {k})

(* What follows the last separator of a path. *)
LastSeparator(p) ==
    IF \E n \in 1..Len(p) : p[n] = "/"
    THEN CHOOSE n \in 1..Len(p) : p[n] = "/" /\ \A m \in (n + 1)..Len(p) : p[m] # "/"
    ELSE 0
BaseName(p) == SubSeq(p, LastSeparator(p) + 1, Len(p))

(* C1: consecutive events are in the same session exactly when their gap  *)
(* is <= merge_threshold: while the events are processed the sessions     *)
(* already closed are as many as the gaps that exceeded the threshold and *)
(* the open session runs from the last such gap to the last processed     *)
(* event; the list returned is empty for no event and otherwise holds one *)
(* session per run of events, 1 + the number of gaps above the threshold. *)
C1_GapDecidesSession ==
    /\ pc = "loop" =>
          /\ Len(durations) = Cardinality(StartSet(i - 1)) - 1
          /\ current_session.start_time = data[SessionStartIndex(i - 1)].time
          /\ current_session.end_time = data[i - 1].time
    /\ pc = "done" =>
          /\ data = << >> => durations = << >>
          /\ data # << >> =>
                /\ Len(durations) =
                      1 + Cardinality({ k \in 2..Len(data) : Gap(k) > merge_threshold })
                /\ \A k \in 1..Len(durations) :
                      /\ durations[k].start_time = data[StartOf(k)].time
                      /\ durations[k].end_time = data[EndOf(k)].time
                      /\ \A n \in (StartOf(k) + 1)..EndOf(k) : Gap(n) <= merge_threshold

C1_Witness ==
    /\ pc = "done"
    /\ Len(data) >= 2
    /\ merge_threshold > 0
    /\ Gap(2) = merge_threshold
    /\ durations[1].start_time = data[1].time
    /\ durations[1].end_time >= data[2].time

(* C2: a merge with a gap > 0 adds exactly the gap to every dimension key *)
(* of event i-1 and to no other key; the scenario t = 0, 100, 200, 1000   *)
(* with threshold 300 gives the session [0,200] with 200 seconds on a.py  *)
(* and the session [1000,1000] of duration 0.                             *)
Dimensions == {"projects", "languages", "categories"}
KeyOf(d) == CASE d = "projects" -> "project"
              [] d = "languages" -> "language"
              [] d = "categories" -> "category"

OldOrZero(m, k) == IF k \in DOMAIN m THEN m[k] ELSE 0

C2_MergeStep ==
    (pc = "loop" /\ i <= Len(data) /\ Gap(i) <= merge_threshold /\ Gap(i) > 0) =>
        LET prev == data[i - 1]
            old == current_session.activities
            new == current_session'.activities
        IN /\ \A d \in Dimensions :
                /\ DOMAIN new[d] = DOMAIN old[d] \cup
                      (IF KeyOf(d) \in DOMAIN prev THEN {prev[KeyOf(d)]} ELSE {})
                /\ \A k \in DOMAIN new[d] :
                      new[d][k] = OldOrZero(old[d], k) +
                          (IF KeyOf(d) \in DOMAIN prev /\ prev[KeyOf(d)] = k
                           THEN Gap(i) ELSE 0)
           /\ DOMAIN new.files = DOMAIN old.files \cup
                 (IF "entity" \in DOMAIN prev THEN {BaseName(prev.entity)} ELSE {})
           /\ \A k \in DOMAIN new.files :
                 new.files[k].duration =
                     (IF k \in DOMAIN old.files THEN old.files[k].duration ELSE 0) +
                     (IF "entity" \in DOMAIN prev /\ BaseName(prev.entity) = k
                      THEN Gap(i) ELSE 0)

C2_Scenario ==
    heartbeats = Scenario =>
        /\ (pc = "loop" /\ i = 4) =>
              /\ current_session.start_time = 0
              /\ current_session.end_time = 200
              /\ current_session.activities.files[<<"a.py">>].duration = 200
        /\ pc = "done" =>
              /\ Len(durations) = 2
              /\ durations[1].start_time = 0 /\ durations[1].end_time = 200
              /\ durations[1].duration_seconds = 200
              /\ durations[1].activities.files[<<"a.py">>].duration_minutes = 333
              /\ durations[2].start_time = 1000 /\ durations[2].end_time = 1000
              /\ durations[2].duration_seconds = 0
              /\ durations[2].activities.files[<<"a.py">>].duration_minutes = 0

C2_GapGoesToPrevious == [][C2_MergeStep]_vars /\ []C2_Scenario

C2_Witness ==
    /\ pc = "loop" /\ i = 3
    /\ Gap(2) > 0 /\ Gap(2) <= merge_threshold
    /\ "project" \in DOMAIN data[1] /\ "project" \in DOMAIN data[2]
    /\ data[1].project # data[2].project
    /\ current_session.activities.projects = (data[1].project :> Gap(2))

(* C3: every accumulated duration, in the session being built and in the  *)
(* sessions returned, is >= 0.                                            *)
NonNegative(a) ==
    /\ \A k \in DOMAIN a.projects : a.projects[k] >= 0
    /\ \A k \in DOMAIN a.languages : a.languages[k] >= 0
    /\ \A k \in DOMAIN a.categories : a.categories[k] >= 0

C3_DurationsNonNegative ==
    /\ NonNegative(current_session.activities)
    /\ \A k \in DOMAIN current_session.activities.files :
          current_session.activities.files[k].duration >= 0
    /\ current_session.duration >= 0
    /\ \A n \in 1..Len(durations) :
          /\ NonNegative(durations[n].activities)
          /\ \A k \in DOMAIN durations[n].activities.files :
                durations[n].activities.files[k].duration_minutes >= 0
          /\ durations[n].duration_seconds >= 0

C3_Witness ==
    /\ pc = "done"
    /\ Len(data) = 3
    /\ Gap(2) = 0
    /\ Gap(3) > 0
    /\ Len(durations) = 1
    /\ \E k \in DOMAIN durations[1].activities.categories :
          durations[1].activities.categories[k] > 0

(* C6: the files key of an event is the base name of its entity: in the   *)
(* session being built the keys are the base names of the events that     *)
(* were attributed, and each key holds the sum of the gaps after all the  *)
(* session's events with that base name, whatever their directories.      *)
Attributed(first, last) ==
    { j \in first..last : "entity" \in DOMAIN data[j] /\ (j = first \/ Gap(j + 1) > 0) }

C6_FilesKeyedByBaseName ==
    pc = "loop" =>
        LET first == SessionStartIndex(i - 1)
            files == current_session.activities.files
        IN /\ DOMAIN files = { BaseName(data[j].entity) : j \in Attributed(first, i - 2) }
                               \cup (IF "entity" \in DOMAIN data[first] /\ first = i - 1
                                     THEN {BaseName(data[first].entity)} ELSE {})
           /\ \A k \in DOMAIN files :
                 /\ \A n \in 1..Len(k) : k[n] # "/"
                 /\ files[k].duration =
                       SumGaps({ j + 1 : j \in { x \in Attributed(first, i - 2) :
                                                   BaseName(data[x].entity) = k } })

C6_Witness ==
    /\ pc = "loop" /\ i = 4
    /\ "entity" \in DOMAIN data[1] /\ "entity" \in DOMAIN data[2]
    /\ data[1].entity = PathAX /\ data[2].entity = PathCX
    /\ Gap(2) > 0 /\ Gap(3) > 0
    /\ SessionStartIndex(3) = 1
    /\ DOMAIN current_session.activities.files = {<<"x.py">>}
    /\ current_session.activities.files[<<"x.py">>].duration = Gap(2) + Gap(3)

----------------------------------------------------------------------------
(* Helpers of the properties of the store and of the report. *)
Records == LoadRecords(stats_file)

RECURSIVE SumHoursAt(_, _)
SumHoursAt(records, S) ==
    IF S = {} THEN 0
    ELSE LET n == CHOOSE x \in S : TRUE
         IN records[n].total_hours + SumHoursAt(records, S \ {n})

(* C4: whatever calls of save_daily_stats were made, on whatever dates,   *)
(* the persisted collection holds at most one record per date.            *)
C4_OneRecordPerDate ==
    \A m, n \in 1..Len(Records) : m # n => Records[m].date # Records[n].date

C4_Witness ==
    /\ report.op = "save_daily_stats"
    /\ report.saved
    /\ report.today_index # 0
    /\ Len(Records) >= 2

(* C5: a save for a date of the store replaces that record in place, with *)
(* the new data, and leaves the length and every other record unchanged;  *)
(* a save for another date appends the new record and leaves the existing *)
(* records unchanged.                                                     *)
C5_SaveStep ==
    (Idle /\ report'.op = "save_daily_stats" /\ report'.saved) =>
        LET old == Records
            new == stats_file'.daily_records
            date == Calendar[now].date
            fresh(r) == /\ r.date = date
                        /\ r.weekday = Calendar[now].weekday
                        /\ r.total_hours = today_status'.data.grand_total.decimal.v
        IN IF \E n \in 1..Len(old) : old[n].date = date
           THEN /\ Len(new) = Len(old)
                /\ \A n \in 1..Len(old) :
                      IF old[n].date = date THEN fresh(new[n]) ELSE new[n] = old[n]
           ELSE /\ Len(new) = Len(old) + 1
                /\ \A n \in 1..Len(old) : new[n] = old[n]
                /\ fresh(new[Len(new)])

C5_UpsertInPlace == [][C5_SaveStep]_vars

C5_Witness ==
    /\ report.op = "save_daily_stats"
    /\ report.saved
    /\ report.today_index = 1
    /\ Len(Records) = 2
    /\ Records[1].date = <<2024, 1, 1>>
    /\ Records[1].total_hours = 700
    /\ today_status = StatusSevenNoCategories

(* C7: with every fetch successful, whatever is missing or malformed in   *)
(* the inputs of the sections, get_productivity_analysis does not raise   *)
(* and each of its six sections ends with its data or a no-data message.  *)
Sections == {"today", "week", "weekday", "trend", "languages", "days"}

C7_SectionsIsolated ==
    (report.op = "get_productivity_analysis" /\ report.failed_fetch = "none") =>
        /\ report.raised = "none"
        /\ \A x \in Sections : report[x].status \notin {"notrun", "raised"}

(* C8: when a live fetch fails, the call does not raise and the sections  *)
(* that use other data, such as the weekly trend of the persisted store,  *)
(* are still produced.                                                    *)
C8_FetchFailureIsolated ==
    (report.op = "get_productivity_analysis" /\ report.failed_fetch # "none") =>
        /\ report.raised # "RequestException"
        /\ report.trend.status = "data"

(* C9: on a store that is absent or unparsable, save_daily_stats and      *)
(* get_productivity_analysis, given well-formed aggregates, do not raise  *)
(* and leave a store of exactly one record, today's.                      *)
C9_Step ==
    (/\ Idle
     /\ stats_file.kind \in {"absent", "corrupt"}
     /\ today_status' \in WellFormedStatuses
     /\ \/ report'.op = "save_daily_stats"
        \/ /\ report'.op = "get_productivity_analysis"
           /\ week_stats' = StatsOk
           /\ week_summaries' = SummariesOk) =>
        /\ report'.raised = "none"
        /\ stats_file'.kind = "json"
        /\ Len(stats_file'.daily_records) = 1
        /\ stats_file'.daily_records[1].date = Calendar[now].date

C9_MissingStoreIsEmpty == [][C9_Step]_vars

(* C10: the historical same-weekday average is the mean of total_hours    *)
(* over exactly the persisted records whose weekday is today's: its sum   *)
(* and its count are those of these records and of no other.              *)
C10_WeekdayAverage ==
    (report.op = "get_productivity_analysis" /\ report.weekday.status # "notrun") =>
        LET same == { n \in 1..Len(Records) :
                        Records[n].weekday = Calendar[now].weekday }
        IN /\ same # {}
           /\ report.weekday.status \in {"data", "raised"}
           /\ report.weekday.avg_hours.count = Cardinality(same)
           /\ report.weekday.avg_hours.sum = SumHoursAt(Records, same)

C10_Witness ==
    /\ report.op = "get_productivity_analysis"
    /\ report.weekday.status = "data"
    /\ report.weekday.avg_hours.count = 2
    /\ report.weekday.avg_hours.sum = 1200
    /\ \E n \in 1..Len(Records) :
          Records[n].weekday # Calendar[now].weekday /\ Records[n].total_hours > 0

(* C11: the weekly trend has one group per distinct ISO week number of    *)
(* the persisted records, each with the mean of its records' total_hours; *)
(* it reports at most 4 groups, in descending week-number order, and the  *)
(* groups reported are those of the most recent calendar weeks that have  *)
(* records.                                                               *)
WeekOf(record) ==
    <<CalendarOf(record.date).iso_year, CalendarOf(record.date).week>>

LaterWeek(a, b) == a[1] > b[1] \/ (a[1] = b[1] /\ a[2] > b[2])

RecentWeeks(records) ==
    LET present == { WeekOf(records[n]) : n \in 1..Len(records) }
    IN { w \in present : Cardinality({ v \in present : LaterWeek(v, w) }) < 4 }

WeekNumbers(records) == { WeekOf(records[n])[2] : n \in 1..Len(records) }

C11_GroupsAndMeans ==
    (report.op = "get_productivity_analysis" /\ report.trend.status = "data") =>
        LET weeks == report.trend.weeks
            numbers == WeekNumbers(Records)
        IN /\ Len(weeks) = (IF Cardinality(numbers) < 4 THEN Cardinality(numbers) ELSE 4)
           /\ \A n \in 1..Len(weeks) :
                 LET group == { m \in 1..Len(Records) :
                                  WeekOf(Records[m])[2] = weeks[n].week }
                 IN /\ group # {}
                    /\ weeks[n].avg.count = Cardinality(group)
                    /\ weeks[n].avg.sum = SumHoursAt(Records, group)
           /\ \A n \in 1..(Len(weeks) - 1) : weeks[n].week > weeks[n + 1].week

C11_MostRecentWeeks ==
    (report.op = "get_productivity_analysis" /\ report.trend.status = "data") =>
        { report.trend.weeks[n].week : n \in 1..Len(report.trend.weeks) }
            = { w[2] : w \in RecentWeeks(Records) }

C12_CurrentWeekIsThisWeek ==
    (report.op = "get_productivity_analysis" /\ report.trend.status = "data") =>
        \A n \in 1..Len(report.trend.weeks) :
            report.trend.weeks[n].current =>
                \A m \in 1..Len(Records) :
                    WeekOf(Records[m])[2] = report.trend.weeks[n].week =>
                        WeekOf(Records[m])
                            = <<FullCalendar[now].iso_year, FullCalendar[now].week>>

(* C13: when a day entry of the week summaries is malformed (no           *)
(* range.date, no grand_total.decimal, an unparsable number), the day is  *)
(* skipped, the section does not fail and the 7-day average reported is   *)
(* the arithmetic mean of the totals of the days parsed successfully.     *)
C13_MalformedDaySkipped ==
    (/\ report.op = "get_productivity_analysis"
     /\ report.week.status # "notrun"
     /\ Has(week_summaries, "data")) =>
        LET days == week_summaries.data
            parsed == Listed(days)
            totals == [n \in 1..Len(parsed) |-> DayTotal(parsed[n]).v]
        IN (Len(parsed) < Len(days) /\ parsed # << >>) =>
              /\ report.week.status = "data"
              /\ report.week.listed = parsed
              /\ report.week.week_avg = Mean(SumSeq(totals), Len(totals))

(* C14: when today's aggregate has data.grand_total but no               *)
(* data.categories (the week summaries being parsable with a non-zero    *)
(* mean), get_productivity_analysis does not raise: the today section    *)
(* reports the total with no category breakdown, the record stored for   *)
(* today has an empty categories mapping, and the later sections run.    *)
NoCategories(status) ==
    /\ GrandTotalDecimal(status).raised = "none"
    /\ ~Has(status.data, "categories")

LineValue(heartbeat, key) ==
    IF key \in DOMAIN heartbeat /\ heartbeat[key].t = "num" THEN heartbeat[key].v ELSE 0

RECURSIVE SumLines(_, _, _)
SumLines(first, last, key) ==
    IF last < first THEN 0
    ELSE LineValue(data[last], key) + SumLines(first, last - 1, key)

C15_LineChangesAreSums ==
    pc = "done" =>
        \A k \in 1..Len(durations) :
            /\ durations[k].line_changes.additions
                  = JNum(SumLines(StartOf(k), EndOf(k), "line_additions"))
            /\ durations[k].line_changes.deletions
                  = JNum(SumLines(StartOf(k), EndOf(k), "line_deletions"))

(* C16: the sessions returned are the consecutive runs of the events      *)
(* sorted by time, in ascending time order: a session starts at the time  *)
(* of its first event and ends at the time of its last, its duration is   *)
(* end_time - start_time and is >= 0, and a lone event gives one session  *)
(* with start_time = end_time and duration 0.                             *)
C16_SessionsPartitionEvents ==
    pc = "done" =>
        /\ \A n \in 1..(Len(data) - 1) : data[n].time <= data[n + 1].time
        /\ \A e \in { heartbeats[n] : n \in 1..Len(heartbeats) }
                        \cup { data[n] : n \in 1..Len(data) } :
              Cardinality({ n \in 1..Len(data) : data[n] = e })
                 = Cardinality({ n \in 1..Len(heartbeats) : heartbeats[n] = e })
        /\ (data = << >>) = (durations = << >>)
        /\ \A k \in 1..Len(durations) :
              /\ StartOf(k) <= EndOf(k)
              /\ durations[k].start_time = data[StartOf(k)].time
              /\ durations[k].end_time = data[EndOf(k)].time
              /\ durations[k].duration_seconds
                    = durations[k].end_time - durations[k].start_time
              /\ durations[k].duration_seconds >= 0
              /\ durations[k].duration_minutes = RoundMinutes(durations[k].duration_seconds)
        /\ durations # << >> => EndOf(Len(durations)) = Len(data)
        /\ \A k \in 1..(Len(durations) - 1) :
              durations[k].end_time < durations[k + 1].start_time
        /\ Len(data) = 1 =>
              /\ Len(durations) = 1
              /\ durations[1].start_time = durations[1].end_time
              /\ durations[1].duration_seconds = 0

C16_Witness ==
    /\ pc = "done"
    /\ Len(data) = 3
    /\ heartbeats # data
    /\ Len(durations) = 1
    /\ durations[1].start_time = data[1].time
    /\ durations[1].end_time = data[3].time
    /\ Gap(2) > 0
    /\ Gap(3) > 0
    /\ durations[1].duration_seconds = Gap(2) + Gap(3)

(* C17: in every session and for each of the four dimensions, the sum of  *)
(* the durations accumulated under the keys of the dimension is <= the    *)
(* session's duration end_time - start_time, with equality when every     *)
(* event of the session except possibly the last carries the dimension;   *)
(* the last event of a session receives no duration: closing a session    *)
(* attributes nothing.                                                    *)
AllDimensions == Dimensions \cup {"files"}
FieldOf(d) == IF d = "files" THEN "entity" ELSE KeyOf(d)

RECURSIVE SumMap(_)
SumMap(m) ==
    IF DOMAIN m = {} THEN 0
    ELSE LET k == CHOOSE x \in DOMAIN m : TRUE
         IN m[k] + SumMap([x \in DOMAIN m \ {k} |-> m[x]])

DimensionTotal(session, d) ==
    IF d = "files"
    THEN SumMap([k \in DOMAIN session.activities.files |->
                    session.activities.files[k].duration])
    ELSE SumMap(session.activities[d])

C17_Accumulated ==
    (pc \in {"loop", "done"} /\ data # << >>) =>
        LET first == SessionStartIndex(i - 1)
            duration == current_session.end_time - current_session.start_time
        IN \A d \in AllDimensions :
              LET carriers == { j \in first..(i - 2) : FieldOf(d) \in DOMAIN data[j] }
              IN /\ DimensionTotal(current_session, d) <= duration
                 /\ DimensionTotal(current_session, d)
                       = SumGaps({ j + 1 : j \in carriers })
                 /\ carriers = first..(i - 2) =>
                       DimensionTotal(current_session, d) = duration

C17_ClosingStep ==
    Len(durations') = Len(durations) + 1 =>
        durations'[Len(durations')] = format_duration(current_session)

C17_LastEventGetsNothing == []C17_Accumulated /\ [][C17_ClosingStep]_vars

C17_Witness ==
    /\ pc = "done"
    /\ Len(data) = 3
    /\ Len(durations) = 1
    /\ Gap(2) > 0
    /\ Gap(3) > 0
    /\ \E d \in AllDimensions :
          /\ DimensionTotal(current_session, d) > 0
          /\ DimensionTotal(current_session, d) < current_session.duration
    /\ \E d \in AllDimensions :
          DimensionTotal(current_session, d) = current_session.duration
    /\ \E d \in Dimensions :
          /\ KeyOf(d) \in DOMAIN data[3]
          /\ data[3][KeyOf(d)] \notin DOMAIN durations[1].activities[d]

(* C18: get_coding_durations returns the same session list (boundaries,   *)
(* per-dimension durations, line-change totals) for every arrival order   *)
(* of the same fetched events, events sharing a timestamp included.       *)
ArrivalOrders(fetched) ==
    { [n \in 1..Len(fetched) |-> fetched[f[n]]] : f \in Permutations(1..Len(fetched)) }

(* What the call that has ended returned or raised. *)
Outcome == [raised |-> exception, durations |-> IF pc = "done" THEN durations ELSE << >>]

(* The arrival order of this call is one of the orders. *)
SameForEveryOrder ==
    \A order \in ArrivalOrders(heartbeats) :
        get_coding_durations(order, merge_threshold) = Outcome

C18_OrderIndependent == pc \in {"done", "raised"} => SameForEveryOrder

(* C18, amended: the same holds when no two of the fetched events share a *)
(* timestamp.                                                             *)
DistinctTimes(fetched) ==
    \A m, n \in 1..Len(fetched) : m # n => fetched[m].time # fetched[n].time

C18_OrderIndependentDistinctTimes ==
    (pc \in {"done", "raised"} /\ DistinctTimes(heartbeats)) => SameForEveryOrder

C18_Witness ==
    /\ pc = "done"
    /\ Len(heartbeats) = 3
    /\ DistinctTimes(heartbeats)
    /\ heartbeats[1].time > heartbeats[2].time
    /\ heartbeats[3].time < heartbeats[2].time
    /\ merge_threshold > 0
    /\ durations[1].duration_seconds > 0
    /\ durations[1].line_changes.additions.v > 0

(* C19: get_productivity_analysis completes without raising when a mean  *)
(* it compares today against is zero: all the trailing-7-day totals are   *)
(* 0, or every persisted record of today's weekday, today's included, has *)
(* total_hours 0.                                                         *)
ZeroWeekMean ==
    /\ week_summaries \in WellFormedSummaries
    /\ SumSeq(DailyTotals(week_summaries.data).v) = 0

ZeroWeekdayMean ==
    /\ week_summaries \in WellFormedSummaries
    /\ report.saved
    /\ \A n \in 1..Len(Records) :
          Records[n].weekday = FullCalendar[now].weekday => Records[n].total_hours = 0

C19_ZeroMeanDoesNotRaise ==
    (/\ report.op = "get_productivity_analysis"
     /\ report.failed_fetch = "none"
     /\ today_status \in WellFormedStatuses
     /\ ZeroWeekMean \/ ZeroWeekdayMean) =>
        /\ report.raised = "none"
        /\ \A x \in Sections : report[x].status \notin {"notrun", "raised"}

====
